---- MODULE Spec2Model ----
(***************************************************************************)
(* A model of neprem_scraper.py: the listing scraper (scrape_listings),    *)
(* the seen-set state file (load_seen / save_seen), the notification run   *)
(* (run_once, notify) and the entry point (main).                          *)
(*                                                                         *)
(* Text is a sequence of one-character strings.  The state file is a       *)
(* sequence of JSON tokens (the commas and the white space of the          *)
(* document are left out): "[" and "]" delimit an array, the other tokens  *)
(* are scalars.                                                            *)
(***************************************************************************)
EXTENDS Integers, Sequences, FiniteSets, TLC

VARIABLES
    pc,              \* where the process is: "idle" is no process running
    args,            \* the parsed command line of the running process
    file,            \* the state file at --data-path
    file0,           \* (history) the state file when the current run began
    total_pages,     \* scrape_listings: total_pages
    page,            \* scrape_listings: the page of the loop at line 316
    listings,        \* scrape_listings: listings
    extracted,       \* (history) the card and the detail answer behind each element of listings
    unique_listings, \* scrape_listings: the returned list
    seen,            \* run_once: seen
    new_listings,    \* run_once: new_listings
    err,             \* the exception that ended the run, "none" otherwise
    fetch_log,       \* (history) every fetch_html call of the run, in order
    notify_log,      \* (history) the argument of every notify call of the run
    send_attempted,  \* (history) smtplib was asked to send in this run
    save_called,     \* (history) save_seen was called in this run
    committed,       \* (history) the URL sets scraped by the runs that notified and committed
    first_title,     \* scrape_listings: the title of the first page, NoTitle before it is fetched
    data_pages,      \* scrape_listings: the data-pages attribute of the first page, once it passed line 301
    text,            \* parse_number: its argument
    number           \* parse_number: its result

vars == <<pc, args, file, file0, total_pages, page, listings, extracted,
          unique_listings, seen, new_listings, err, fetch_log, notify_log,
          send_attempted, save_called, committed, first_title, data_pages, text, number>>

(***************************************************************************)
(* Bounds of the model.                                                    *)
(***************************************************************************)
MaxTextLen == 5     \* longest argument of parse_number
MaxFileLen == 4     \* longest state file, in tokens, that load_seen is given
MaxListLen == 3     \* longest list handed to the dedup pass on its own
MaxCards == 2       \* cards with a URL that one run extracts
MaxPages == 2       \* largest data-pages value of a first page

(***************************************************************************)
(* Text helpers (Python's str methods on sequences of characters).         *)
(***************************************************************************)
RECURSIVE SeqsUpTo(_, _)
SeqsUpTo(S, n) ==
    IF n = 0 THEN {<<>>}
    ELSE LET shorter == SeqsUpTo(S, n - 1)
         IN shorter \cup {Append(s, x) : s \in {t \in shorter : Len(t) = n - 1}, x \in S}

HasPrefixAt(s, pat, i) ==
    /\ i + Len(pat) - 1 <= Len(s)
    /\ \A k \in 1..Len(pat) : s[i + k - 1] = pat[k]

\* str.replace(old, new): left to right, occurrences that do not overlap
RECURSIVE ReplaceFrom(_, _, _, _)
ReplaceFrom(s, old, new, i) ==
    IF i > Len(s) THEN <<>>
    ELSE IF HasPrefixAt(s, old, i)
         THEN new \o ReplaceFrom(s, old, new, i + Len(old))
         ELSE <<s[i]>> \o ReplaceFrom(s, old, new, i + 1)

Replace(s, old, new) == ReplaceFrom(s, old, new, 1)

Whitespace == {" "}

RECURSIVE LStrip(_)
LStrip(s) == IF s # <<>> /\ Head(s) \in Whitespace THEN LStrip(Tail(s)) ELSE s

RECURSIVE RStrip(_)
RStrip(s) ==
    IF s # <<>> /\ s[Len(s)] \in Whitespace THEN RStrip(SubSeq(s, 1, Len(s) - 1)) ELSE s

Strip(s) == LStrip(RStrip(s))

Contains(s, c) == \E i \in 1..Len(s) : s[i] = c

Digits == {"1", "2"}

(***************************************************************************)
(* parse_number (lines 111-130).                                           *)
(***************************************************************************)
\* re.findall(r"\d[\d\.,]*", cleaned)[0]: from the first digit, the longest run of
\* digits, '.' and ','; the empty sequence when there is no digit
RECURSIVE RunEnd(_, _)
RunEnd(s, i) ==
    IF i + 1 <= Len(s) /\ s[i + 1] \in Digits \cup {".", ","} THEN RunEnd(s, i + 1) ELSE i

FirstDigitRun(s) ==
    LET starts == {i \in 1..Len(s) : s[i] \in Digits}
    IN IF starts = {} THEN <<>>
       ELSE LET i == CHOOSE j \in starts : \A k \in starts : j <= k
            IN SubSeq(s, i, RunEnd(s, i))

parse_number(t) ==
    IF t = <<>> THEN <<>>
    ELSE LET cleaned == Strip(Replace(Replace(Replace(Replace(Replace(t,
                            <<"nbsp">>, <<" ">>),
                            <<"euro">>, <<>>),
                            <<"E", "U", "R">>, <<>>),
                            <<"m", "sup2">>, <<>>),
                            <<"m", "2">>, <<>>))
             value == FirstDigitRun(cleaned)
         IN IF value = <<>> THEN <<>>
            ELSE IF Contains(value, ",") /\ Contains(value, ".")
                 THEN Replace(Replace(value, <<".">>, <<>>), <<",">>, <<".">>)
                 ELSE IF Contains(value, ",")
                      THEN Replace(value, <<",">>, <<".">>)
                      ELSE value

(***************************************************************************)
(* The state file: JSON documents as token sequences.                      *)
(***************************************************************************)
Urls == {"a", "b"}            \* normalized listing URLs; "" is no URL
UrlRank(u) == IF u = "a" THEN 1 ELSE 2      \* the order of str comparison

JsonNumber == "7"             \* a JSON number
JsonObject == "{}"            \* a JSON object (a dict: not hashable)
BadByte == "0xff"             \* a byte that is not valid UTF-8
Garbage == "x"                \* text that is no JSON token
Scalars == Urls \cup {JsonNumber, JsonObject}
Tokens == Scalars \cup {"[", "]", BadByte, Garbage}

NoFile == [exists |-> FALSE, readable |-> TRUE, data |-> <<>>]
FileOf(d) == [exists |-> TRUE, readable |-> TRUE, data |-> d]

\* json.load's grammar: the index after the value that starts at i, 0 when there is none
RECURSIVE ValueEnd(_, _), ElemsEnd(_, _)
ValueEnd(d, i) ==
    IF i > Len(d) THEN 0
    ELSE IF d[i] \in Scalars THEN i + 1
    ELSE IF d[i] = "[" THEN ElemsEnd(d, i + 1)
    ELSE 0
ElemsEnd(d, i) ==
    IF i > Len(d) THEN 0
    ELSE IF d[i] = "]" THEN i + 1
    ELSE LET j == ValueEnd(d, i) IN IF j = 0 THEN 0 ELSE ElemsEnd(d, j)

IsJson(d) == ValueEnd(d, 1) = Len(d) + 1

\* the places where the elements of the array that opens at d[1] start
RECURSIVE ElemStarts(_, _)
ElemStarts(d, i) == IF d[i] = "]" THEN {} ELSE {i} \cup ElemStarts(d, ValueEnd(d, i))

Hashable(d, i) == d[i] \in Scalars \ {JsonObject}

\* load_seen (lines 484-494): the exception it raises ("none" when it returns) and the set
load_seen(f) ==
    IF ~f.exists THEN [raised |-> "none", value |-> {}]
    ELSE IF ~f.readable THEN [raised |-> "none", value |-> {}]                \* OSError
    ELSE IF \E i \in 1..Len(f.data) : f.data[i] = BadByte
         THEN [raised |-> "UnicodeDecodeError", value |-> {}]
    ELSE IF ~IsJson(f.data) THEN [raised |-> "none", value |-> {}]            \* JSONDecodeError
    ELSE IF f.data[1] # "[" THEN [raised |-> "none", value |-> {}]            \* not a list
    ELSE LET es == ElemStarts(f.data, 2)
         IN IF \E i \in es : ~Hashable(f.data, i)
            THEN [raised |-> "TypeError", value |-> {}]
            ELSE [raised |-> "none", value |-> {f.data[i] : i \in es}]

\* sorted(set(urls)), for a set of URLs
RECURSIVE sorted(_)
sorted(S) ==
    IF S = {} THEN <<>>
    ELSE LET m == CHOOSE u \in S : \A v \in S : UrlRank(u) <= UrlRank(v)
         IN <<m>> \o sorted(S \ {m})

\* json.dump of a list of strings (line 500)
json_dump(list) == <<"[">> \o list \o <<"]">>

(***************************************************************************)
(* Cards, detail pages and Listing records.                                *)
(***************************************************************************)
MergedFields == {"location", "area_m2", "year", "renovation_year", "is_new_building",
                 "floor", "room_type", "listing_type", "images"}

\* a card of a summary page, as lines 327-416 read it
SummaryFull(u) ==
    [url |-> u, title |-> "Stanovanje", location |-> "Center", area_m2 |-> "50",
     year |-> "1990", renovation_year |-> "2010", is_new_building |-> "1", floor |-> "2",
     room_type |-> "2-sobno", listing_type |-> "Stanovanje", images |-> "s.jpg"]
SummarySparse(u) ==
    [url |-> u, title |-> "", location |-> "Center", area_m2 |-> "",
     year |-> "1990", renovation_year |-> "", is_new_building |-> "", floor |-> "2",
     room_type |-> "", listing_type |-> "Stanovanje", images |-> ""]

\* the answer to the detail fetch of a card: extract_detail_fields' dict, or a failure
NoDetailFields ==
    [bedrooms_count |-> "", bathrooms_count |-> "", location |-> "", area_m2 |-> "",
     year |-> "", renovation_year |-> "", is_new_building |-> "", floor |-> "",
     room_type |-> "", listing_type |-> "", images |-> ""]
DetailFull ==
    [ok |-> TRUE,
     fields |-> [bedrooms_count |-> "2", bathrooms_count |-> "1", location |-> "Bezigrad",
                 area_m2 |-> "52.5", year |-> "1991", renovation_year |-> "2011",
                 is_new_building |-> "1", floor |-> "3", room_type |-> "3-sobno",
                 listing_type |-> "Hisa", images |-> "d.jpg"]]
DetailSparse ==
    [ok |-> TRUE,
     fields |-> [bedrooms_count |-> "", bathrooms_count |-> "1", location |-> "",
                 area_m2 |-> "52.5", year |-> "", renovation_year |-> "2011",
                 is_new_building |-> "", floor |-> "", room_type |-> "3-sobno",
                 listing_type |-> "", images |-> "d.jpg"]]
DetailFailed == [ok |-> FALSE, fields |-> NoDetailFields]

LeanCards == {SummaryFull(u) : u \in Urls \cup {""}}
LeanDetails == {DetailFull, DetailFailed}
RichCards == {SummaryFull(u) : u \in Urls \cup {""}} \cup {SummarySparse(u) : u \in Urls}
RichDetails == {DetailFull, DetailSparse, DetailFailed}

SummaryOrDetail(detail, summary) == IF summary # "" THEN summary ELSE detail

\* Python's `detail or summary` on strings (lines 452-466)
DetailOrSummary(detail, summary) == IF detail # "" THEN detail ELSE summary

\* lines 418-445: the detail_* locals and the two counts after the try statement
EnrichFromDetail(det) == IF det.ok THEN det.fields ELSE NoDetailFields

\* lines 415-416 and 447-470: the Listing appended for a card
Listing(card, det) ==
    LET d == EnrichFromDetail(det)
    IN [url |-> card.url,
        title |-> IF card.title = "" THEN card.url ELSE card.title,
        location |-> DetailOrSummary(d.location, card.location),
        area_m2 |-> DetailOrSummary(d.area_m2, card.area_m2),
        year |-> DetailOrSummary(d.year, card.year),
        renovation_year |-> DetailOrSummary(d.renovation_year, card.renovation_year),
        is_new_building |-> DetailOrSummary(d.is_new_building, card.is_new_building),
        floor |-> DetailOrSummary(d.floor, card.floor),
        room_type |-> DetailOrSummary(d.room_type, card.room_type),
        listing_type |-> DetailOrSummary(d.listing_type, card.listing_type),
        images |-> DetailOrSummary(d.images, card.images),
        bedrooms_count |-> d.bedrooms_count,
        bathrooms_count |-> d.bathrooms_count]

\* lines 472-481: the dedup pass, with seen_urls and unique_listings as it goes
RECURSIVE DedupFrom(_, _, _, _)
DedupFrom(list, i, seen_urls, unique) ==
    IF i > Len(list) THEN unique
    ELSE IF list[i].url \in seen_urls
         THEN DedupFrom(list, i + 1, seen_urls, unique)
         ELSE DedupFrom(list, i + 1, seen_urls \cup {list[i].url}, Append(unique, list[i]))

\* what {l.url: l for l in list}.values() keeps: the place of the first, the record of the last
Dedup_KeepLast(list) ==
    LET firsts == DedupFrom(list, 1, {}, <<>>)
        last(u) == CHOOSE i \in 1..Len(list) :
                      /\ list[i].url = u
                      /\ \A j \in (i + 1)..Len(list) : list[j].url # u
    IN [k \in 1..Len(firsts) |-> list[last(firsts[k].url)]]

Dedup(list) == DedupFrom(list, 1, {}, <<>>)

IsNew_Always(listing, seen_set) == TRUE

\* line 553: the listings whose url is not in seen
IsNew(listing, seen_set) == listing.url \notin seen_set
Diff(list, seen_set) == SelectSeq(list, LAMBDA l : IsNew(l, seen_set))

UrlsOf(list) == {list[i].url : i \in 1..Len(list)}

(***************************************************************************)
(* The pages the site answers with.                                        *)
(***************************************************************************)
NoTitle == "<no title>"
Titles == {NoTitle, "Nepremicnine", "Just a moment...", "JUST A MOMENT...", "just a moment..."}

Lower_Identity(t) == t

\* str.lower() on the titles
Lower(t) ==
    CASE t = "Just a moment..." -> "just a moment..."
      [] t = "JUST A MOMENT..." -> "just a moment..."
      [] t = "Nepremicnine" -> "nepremicnine"
      [] OTHER -> t

\* "just a moment" in s
HasSignature(s) == s \in {"just a moment..."}

\* line 301
IsChallenge(title) == title # NoTitle /\ HasSignature(Lower(title))

\* the data-pages attribute of the pagination element
NoDataPages == [kind |-> "absent", n |-> 0]
DataPagesAttrs ==
    {[kind |-> k, n |-> 0] : k \in {"absent", "empty", "text"}}
        \cup {[kind |-> "int", n |-> k] : k \in 0..MaxPages}

\* get_total_pages (lines 280-287)
get_total_pages(attr) == IF attr.kind = "int" THEN attr.n ELSE 1

SummaryFetch(p) == [kind |-> "summary", page |-> p, url |-> ""]
DetailFetch(u) == [kind |-> "detail", page |-> 0, url |-> u]

(***************************************************************************)
(* main (lines 584-636): the command it dispatches to and the all_pages    *)
(* that command hands to scrape_listings.                                  *)
(***************************************************************************)
CommandLines == [list : BOOLEAN, csv : BOOLEAN, all_pages : BOOLEAN, loop : BOOLEAN]

Dispatch(cl) ==
    IF cl.list THEN [command |-> "list", all_pages |-> FALSE]
    ELSE IF cl.csv THEN [command |-> "csv", all_pages |-> cl.all_pages]
    ELSE IF ~cl.loop THEN [command |-> "run_once", all_pages |-> FALSE]
    ELSE [command |-> "loop", all_pages |-> FALSE]

NoArgs == [command |-> "none", all_pages |-> FALSE]
ExportLines == {cl \in CommandLines : cl.list \/ cl.csv}

Notifies == args.command \in {"run_once", "loop"}

ClearRun ==
    /\ total_pages' = 0
    /\ page' = 0
    /\ listings' = <<>>
    /\ extracted' = <<>>
    /\ unique_listings' = <<>>
    /\ seen' = {}
    /\ new_listings' = <<>>
    /\ err' = "none"
    /\ fetch_log' = <<>>
    /\ notify_log' = <<>>
    /\ send_attempted' = FALSE
    /\ save_called' = FALSE
    /\ first_title' = NoTitle
    /\ data_pages' = NoDataPages

\* (history) the record of the runs that notified and committed, taken when a run is left
CommitRecord ==
    IF pc = "returned" /\ save_called
    THEN committed \cup {UrlsOf(unique_listings)}
    ELSE committed

Raise(e) == err' = e /\ pc' = "failed"

\* everything but pc, file, listings and text, as it is before a process starts
Defaults ==
    /\ args = NoArgs
    /\ file0 = NoFile
    /\ total_pages = 0
    /\ page = 0
    /\ extracted = <<>>
    /\ unique_listings = <<>>
    /\ seen = {}
    /\ new_listings = <<>>
    /\ err = "none"
    /\ fetch_log = <<>>
    /\ notify_log = <<>>
    /\ send_attempted = FALSE
    /\ save_called = FALSE
    /\ committed = {}
    /\ first_title = NoTitle
    /\ data_pages = NoDataPages
    /\ number = <<>>

Init ==
    /\ pc = "idle"
    /\ file = NoFile
    /\ listings = <<>>
    /\ text = <<>>
    /\ Defaults

\* a process is started with one of the command lines
Start(lines) ==
    /\ pc = "idle"
    /\ \E cl \in lines : args' = Dispatch(cl)
    /\ pc' = "fetch_first"
    /\ file0' = file
    /\ ClearRun
    /\ UNCHANGED <<file, committed, text, number>>

(***************************************************************************)
(* scrape_listings (lines 298-481).                                        *)
(***************************************************************************)
\* lines 299-305: the first fetch, the challenge check, the page count
FetchFirstPage ==
    /\ pc = "fetch_first"
    /\ fetch_log' = Append(fetch_log, SummaryFetch(1))
    /\ \/ /\ Raise("FetchError")
          /\ UNCHANGED <<total_pages, page, first_title, data_pages>>
       \/ \E title \in Titles, attr \in DataPagesAttrs :
             /\ first_title' = title
             /\ IF IsChallenge(title)
                THEN /\ Raise("ChallengeError")
                     /\ UNCHANGED <<total_pages, page, data_pages>>
                ELSE LET n == IF args.all_pages THEN get_total_pages(attr) ELSE 1
                     IN /\ data_pages' = attr
                        /\ total_pages' = n
                        /\ page' = 1
                        /\ pc' = IF n >= 1 THEN "cards" ELSE "dedup"
                        /\ err' = err
    /\ UNCHANGED <<args, file, file0, listings, extracted, unique_listings, seen,
                   new_listings, notify_log, send_attempted, save_called, committed,
                   text, number>>

NextCard_NoExcept(cards, details) ==
    /\ pc = "cards"
    /\ \E card \in cards, det \in details :
          IF card.url = ""
          THEN UNCHANGED <<listings, extracted, fetch_log, pc, err>>
          ELSE /\ Len(extracted) < MaxCards
               /\ fetch_log' = Append(fetch_log, DetailFetch(card.url))
               /\ IF det.ok
                  THEN /\ listings' = Append(listings, Listing(card, det))
                       /\ extracted' = Append(extracted, [card |-> card, det |-> det])
                       /\ UNCHANGED <<pc, err>>
                  ELSE /\ Raise("FetchError")
                       /\ UNCHANGED <<listings, extracted>>
    /\ UNCHANGED <<args, file, file0, total_pages, page, unique_listings, seen,
                   new_listings, notify_log, send_attempted, save_called, committed,
                   first_title, data_pages, text, number>>

\* lines 326-470: one card of the page; without a URL it is skipped (line 336)
NextCard(cards, details) ==
    /\ pc = "cards"
    /\ \E card \in cards, det \in details :
          IF card.url = ""
          THEN UNCHANGED <<listings, extracted, fetch_log>>
          ELSE /\ Len(extracted) < MaxCards
               /\ fetch_log' = Append(fetch_log, DetailFetch(card.url))
               /\ listings' = Append(listings, Listing(card, det))
               /\ extracted' = Append(extracted, [card |-> card, det |-> det])
    /\ UNCHANGED <<pc, args, file, file0, total_pages, page, unique_listings, seen,
                   new_listings, err, notify_log, send_attempted, save_called, committed,
                   first_title, data_pages, text, number>>

\* range(1, total_pages) in place of range(1, total_pages + 1)
EndPage_OffByOne ==
    /\ pc = "cards"
    /\ IF page < total_pages - 1
       THEN page' = page + 1 /\ pc' = "fetch_page"
       ELSE page' = page /\ pc' = "dedup"
    /\ UNCHANGED <<args, file, file0, total_pages, listings, extracted, unique_listings,
                   seen, new_listings, err, fetch_log, notify_log, send_attempted,
                   save_called, committed, first_title, data_pages, text, number>>

\* line 316: the cards of the page are done; the next page, or the end of the loop
EndPage ==
    /\ pc = "cards"
    /\ IF page < total_pages
       THEN page' = page + 1 /\ pc' = "fetch_page"
       ELSE page' = page /\ pc' = "dedup"
    /\ UNCHANGED <<args, file, file0, total_pages, listings, extracted, unique_listings,
                   seen, new_listings, err, fetch_log, notify_log, send_attempted,
                   save_called, committed, first_title, data_pages, text, number>>

\* lines 319-321: the fetch of a page after the first
FetchPage ==
    /\ pc = "fetch_page"
    /\ fetch_log' = Append(fetch_log, SummaryFetch(page))
    /\ \/ Raise("FetchError")
       \/ pc' = "cards" /\ err' = err
    /\ UNCHANGED <<args, file, file0, total_pages, page, listings, extracted,
                   unique_listings, seen, new_listings, notify_log, send_attempted,
                   save_called, committed, first_title, data_pages, text, number>>

\* lines 472-481, and the caller's next statement
DedupReturn ==
    /\ pc = "dedup"
    /\ unique_listings' = Dedup(listings)
    /\ pc' = IF Notifies THEN "load_seen" ELSE "export"
    /\ UNCHANGED <<args, file, file0, total_pages, page, listings, extracted, seen,
                   new_listings, err, fetch_log, notify_log, send_attempted, save_called,
                   committed, first_title, data_pages, text, number>>

\* print_listings (lines 566-568) and write_csv (lines 573-581)
Export ==
    /\ pc = "export"
    /\ pc' = "exported"
    /\ UNCHANGED <<args, file, file0, total_pages, page, listings, extracted,
                   unique_listings, seen, new_listings, err, fetch_log, notify_log,
                   send_attempted, save_called, committed, first_title, data_pages, text, number>>

(***************************************************************************)
(* run_once (lines 550-561), notify and save_seen.                         *)
(***************************************************************************)
\* lines 552-555
LoadSeenDiff ==
    /\ pc = "load_seen"
    /\ LET loaded == load_seen(file)
       IN IF loaded.raised # "none"
          THEN /\ Raise(loaded.raised)
               /\ UNCHANGED <<seen, new_listings>>
          ELSE /\ seen' = loaded.value
               /\ new_listings' = Diff(unique_listings, loaded.value)
               /\ pc' = IF new_listings' # <<>> THEN "notify" ELSE "returned"
               /\ err' = err
    /\ UNCHANGED <<args, file, file0, total_pages, page, listings, extracted,
                   unique_listings, fetch_log, notify_log, send_attempted, save_called,
                   committed, first_title, data_pages, text, number>>

Notify_SwallowFailure ==
    /\ pc = "notify"
    /\ notify_log' = Append(notify_log, new_listings)
    /\ \E mode \in {"stdout", "smtp"}, complete \in BOOLEAN, sent \in BOOLEAN :
          /\ err' = IF mode = "smtp" /\ ~complete THEN "ConfigurationError"
                    ELSE IF mode = "smtp" /\ ~sent THEN "SMTPException"
                    ELSE err
          /\ send_attempted' = (mode = "smtp" /\ complete)
          /\ seen' = seen \cup UrlsOf(new_listings)
          /\ pc' = "save_open"
    /\ UNCHANGED <<args, file, file0, total_pages, page, listings, extracted,
                   unique_listings, new_listings, fetch_log, save_called, committed,
                   first_title, data_pages, text, number>>

\* lines 556-557: notify (542-547) with send_stdout or send_smtp (514-539), then seen.update
Notify ==
    /\ pc = "notify"
    /\ notify_log' = Append(notify_log, new_listings)
    /\ \E mode \in {"stdout", "smtp"}, complete \in BOOLEAN, sent \in BOOLEAN :
          IF mode = "smtp" /\ ~complete
          THEN /\ Raise("ConfigurationError")
               /\ UNCHANGED <<seen, send_attempted>>
          ELSE IF mode = "smtp" /\ ~sent
          THEN /\ Raise("SMTPException")
               /\ send_attempted' = TRUE
               /\ seen' = seen
          ELSE /\ send_attempted' = (mode = "smtp")
               /\ seen' = seen \cup UrlsOf(new_listings)
               /\ pc' = "save_open"
               /\ err' = err
    /\ UNCHANGED <<args, file, file0, total_pages, page, listings, extracted,
                   unique_listings, new_listings, fetch_log, save_called, committed,
                   first_title, data_pages, text, number>>

\* lines 498-499: open(path, "w") creates the file or cuts it to nothing
SaveOpen ==
    /\ pc = "save_open"
    /\ save_called' = TRUE
    /\ file' = FileOf(<<>>)
    /\ pc' = "save_write"
    /\ UNCHANGED <<args, file0, total_pages, page, listings, extracted, unique_listings,
                   seen, new_listings, err, fetch_log, notify_log, send_attempted,
                   committed, first_title, data_pages, text, number>>

\* line 500: the document reaches the file in one or more writes; the last one closes it
SaveWrite ==
    /\ pc = "save_write"
    /\ LET doc == json_dump(sorted(seen))
       IN \E k \in (Len(file.data) + 1)..Len(doc) :
             /\ file' = FileOf(SubSeq(doc, 1, k))
             /\ pc' = IF k = Len(doc) THEN "returned" ELSE "save_write"
    /\ UNCHANGED <<args, file0, total_pages, page, listings, extracted, unique_listings,
                   seen, new_listings, err, fetch_log, notify_log, send_attempted,
                   save_called, committed, first_title, data_pages, text, number>>

\* lines 634-636: run_once returned in the loop; after the sleep the next run begins
Sleep ==
    /\ pc = "returned"
    /\ args.command = "loop"
    /\ pc' = "fetch_first"
    /\ file0' = file
    /\ committed' = CommitRecord
    /\ ClearRun
    /\ UNCHANGED <<args, file, text, number>>

\* the process ends: main returns, or an exception leaves it
ProcessExit ==
    /\ \/ pc = "returned" /\ args.command = "run_once"
       \/ pc = "exported"
       \/ pc = "failed"
    /\ pc' = "idle"
    /\ args' = NoArgs
    /\ file0' = file
    /\ committed' = CommitRecord
    /\ ClearRun
    /\ UNCHANGED <<file, text, number>>

\* the process is terminated from outside, wherever it is
Interrupt ==
    /\ pc \in {"fetch_first", "cards", "fetch_page", "dedup", "export", "exported",
               "load_seen", "notify", "save_open", "save_write", "returned", "failed"}
    /\ pc' = "idle"
    /\ args' = NoArgs
    /\ file0' = file
    /\ committed' = CommitRecord
    /\ ClearRun
    /\ UNCHANGED <<file, text, number>>

Next ==
    \/ Start(CommandLines)
    \/ FetchFirstPage
    \/ NextCard(LeanCards, LeanDetails)
    \/ EndPage
    \/ FetchPage
    \/ DedupReturn
    \/ Export
    \/ LoadSeenDiff
    \/ Notify
    \/ SaveOpen
    \/ SaveWrite
    \/ Sleep
    \/ ProcessExit
    \/ Interrupt

Spec == Init /\ [][Next]_vars

(***************************************************************************)
(* The notifier left to itself: the runs of main without --list and        *)
(* --csv, once or in the loop, that nothing stops from outside and that    *)
(* keep taking their next step.                                            *)
(***************************************************************************)
NotifyLines == {cl \in CommandLines : ~cl.list /\ ~cl.csv}

NextLoop ==
    \/ Start(NotifyLines)
    \/ FetchFirstPage
    \/ NextCard(LeanCards, LeanDetails)
    \/ EndPage
    \/ DedupReturn
    \/ LoadSeenDiff
    \/ Notify
    \/ SaveOpen
    \/ SaveWrite
    \/ Sleep
    \/ ProcessExit

SpecLoop == Init /\ [][NextLoop]_vars /\ WF_vars(NextLoop)

(***************************************************************************)
(* The scraper on its own: the runs of --list and --csv, over cards and    *)
(* detail pages with every mix of empty and non-empty fields.              *)
(***************************************************************************)
NextScrape ==
    \/ Start(ExportLines)
    \/ FetchFirstPage
    \/ NextCard(RichCards, RichDetails)
    \/ EndPage
    \/ FetchPage
    \/ DedupReturn
    \/ Export
    \/ ProcessExit
    \/ Interrupt

SpecScrape == Init /\ [][NextScrape]_vars

(***************************************************************************)
(* parse_number on its own, over every short text.                         *)
(***************************************************************************)
Alphabet == {"1", "2", ".", ",", "m", " "}

InitParse ==
    /\ pc = "parse_call"
    /\ file = NoFile
    /\ listings = <<>>
    /\ text \in SeqsUpTo(Alphabet, MaxTextLen)
    /\ Defaults

ParseNumberCall ==
    /\ pc = "parse_call"
    /\ number' = parse_number(text)
    /\ pc' = "parse_done"
    /\ UNCHANGED <<args, file, file0, total_pages, page, listings, extracted,
                   unique_listings, seen, new_listings, err, fetch_log, notify_log,
                   send_attempted, save_called, committed, first_title, data_pages, text>>

SpecParse == InitParse /\ [][ParseNumberCall]_vars

(***************************************************************************)
(* load_seen on its own, over every short state file.                      *)
(***************************************************************************)
StateFiles ==
    {NoFile} \cup [exists : {TRUE}, readable : BOOLEAN, data : SeqsUpTo(Tokens, MaxFileLen)]

InitLoad ==
    /\ pc = "load_call"
    /\ file \in StateFiles
    /\ listings = <<>>
    /\ text = <<>>
    /\ Defaults

LoadSeenCall ==
    /\ pc = "load_call"
    /\ LET loaded == load_seen(file)
       IN seen' = loaded.value /\ err' = loaded.raised
    /\ pc' = "load_done"
    /\ UNCHANGED <<args, file, file0, total_pages, page, listings, extracted,
                   unique_listings, new_listings, fetch_log, notify_log, send_attempted,
                   save_called, committed, first_title, data_pages, text, number>>

SpecLoad == InitLoad /\ [][LoadSeenCall]_vars

(***************************************************************************)
(* The dedup pass on its own, over every short list of records.            *)
(***************************************************************************)
Records == {Listing(card, det) : card \in {c \in RichCards : c.url # ""}, det \in RichDetails}

InitDedup ==
    /\ pc = "dedup_call"
    /\ file = NoFile
    /\ listings \in SeqsUpTo(Records, MaxListLen)
    /\ text = <<>>
    /\ Defaults

DedupCall ==
    /\ pc = "dedup_call"
    /\ unique_listings' = Dedup(listings)
    /\ pc' = "dedup_done"
    /\ UNCHANGED <<args, file, file0, total_pages, page, listings, extracted, seen,
                   new_listings, err, fetch_log, notify_log, send_attempted, save_called,
                   committed, first_title, data_pages, text, number>>

SpecDedup == InitDedup /\ [][DedupCall]_vars

(***************************************************************************)
(* Properties.                                                             *)
(***************************************************************************)
\* the k-th smallest element of a set of numbers
Kth(S, k) == CHOOSE i \in S : Cardinality({j \in S : j < i}) = k - 1

NotifyFailed == err \in {"ConfigurationError", "SMTPException"}

\* C1: when notify fails in run_once (the send raises, or the SMTP settings are
\* incomplete, which is raised before any send attempt), the state file is as it was
\* when the run began and save_seen was not called.
C1_FailedNotifyKeepsSeen ==
    NotifyFailed =>
        /\ file = file0
        /\ ~save_called
        /\ (err = "ConfigurationError" => ~send_attempted)

C1_Witness ==
    /\ pc = "failed"
    /\ err = "SMTPException"
    /\ new_listings # <<>>
    /\ load_seen(file).value # {}

\* C2: once a run has notified and committed, a later run that scrapes the same URLs
\* computes an empty diff, does not call notify and does not write the state file.
C2_RerunIsSilent ==
    (Notifies /\ UrlsOf(unique_listings) \in committed) =>
        /\ new_listings = <<>>
        /\ notify_log = <<>>
        /\ ~save_called

\* C3: load_seen never raises, whatever the state file holds.
C3_LoadNeverRaises == pc = "load_done" => err = "none"

\* C4: at every point of a run the state file holds the complete previous set or the
\* complete new set (the previous set plus the URLs of the new listings).
C4_StateFileComplete ==
    LET old == load_seen(file0).value
    IN \/ file = file0
       \/ file = FileOf(json_dump(sorted(old \cup UrlsOf(new_listings))))

\* C5: the list handed to notify is the scraped records whose URL is not in the loaded
\* seen-set, in the order scrape_listings returned them, and it is never empty.
C5_NotifyGetsTheDiff ==
    /\ Len(notify_log) <= 1
    /\ notify_log # <<>> =>
          LET given == notify_log[1]
              keep == {j \in 1..Len(unique_listings) :
                          unique_listings[j].url \notin load_seen(file0).value}
          IN /\ given # <<>>
             /\ Len(given) = Cardinality(keep)
             /\ \A k \in 1..Len(given) : given[k] = unique_listings[Kth(keep, k)]

C5_Witness ==
    /\ notify_log # <<>>
    /\ Len(notify_log[1]) = 1
    /\ Len(unique_listings) = 2
    /\ notify_log[1][1] = unique_listings[2]

\* C6: the dedup pass keeps the first record of each URL and drops the later ones, in
\* the order of the kept records, so that no two returned records share a URL.
C6_DedupKeepsFirst ==
    pc = "dedup_done" =>
        LET firsts == {i \in 1..Len(listings) :
                          \A j \in 1..(i - 1) : listings[j].url # listings[i].url}
        IN /\ Len(unique_listings) = Cardinality(firsts)
           /\ \A k \in 1..Len(unique_listings) :
                 unique_listings[k] = listings[Kth(firsts, k)]
           /\ \A k, m \in 1..Len(unique_listings) :
                 unique_listings[k].url = unique_listings[m].url => k = m

C6_Witness ==
    /\ pc = "dedup_done"
    /\ Len(listings) = 3
    /\ listings[1].url = listings[3].url
    /\ listings[1] # listings[3]
    /\ listings[2].url # listings[1].url
    /\ Len(unique_listings) = 2

\* C7: every field that both the detail page and the card produce carries the detail
\* value when that is not empty, and the card's value when the detail fetch failed or
\* the detail value is empty.
C7_DetailBeforeSummary ==
    /\ Len(listings) = Len(extracted)
    /\ \A i \in 1..Len(listings) : \A f \in MergedFields :
          listings[i][f] =
              IF extracted[i].det.ok /\ extracted[i].det.fields[f] # ""
              THEN extracted[i].det.fields[f]
              ELSE extracted[i].card[f]

C7_Witness ==
    \E i \in 1..Len(listings) :
        /\ extracted[i].det = DetailSparse
        /\ extracted[i].card = SummaryFull(extracted[i].card.url)
        /\ listings[i].area_m2 = "52.5"
        /\ listings[i].location = "Center"

\* C8: parse_number returns the empty string or a non-negative decimal: digits, then
\* at most one '.' followed by digits.
IsDigits(v) == v # <<>> /\ \A i \in 1..Len(v) : v[i] \in Digits
IsDecimal(v) ==
    \/ IsDigits(v)
    \/ \E i \in 1..Len(v) :
          /\ v[i] = "."
          /\ IsDigits(SubSeq(v, 1, i - 1))
          /\ IsDigits(SubSeq(v, i + 1, Len(v)))

ChallengeTitles == {"Just a moment...", "JUST A MOMENT...", "just a moment..."}

C9_ChallengeFailsTheRun ==
    first_title \in ChallengeTitles =>
        /\ pc = "failed"
        /\ err = "ChallengeError"
        /\ fetch_log = <<SummaryFetch(1)>>
        /\ listings = <<>>
        /\ extracted = <<>>
        /\ notify_log = <<>>
        /\ ~save_called
        /\ file = file0

C9_Witness ==
    /\ first_title = "JUST A MOMENT..."
    /\ pc = "failed"
    /\ Notifies
    /\ load_seen(file).value # {}

\* C10: a card whose detail fetch or parse failed is emitted with the card's own field
\* values and empty counts; every card is fetched and emitted as its own card and
\* detail answer give it, whatever happened to the others; only a failed summary fetch
\* fails the run, and then no records are returned.
C10_DetailFailureIsIsolated ==
    /\ Len(listings) = Len(extracted)
    /\ \A i \in 1..Len(listings) :
          /\ listings[i] = Listing(extracted[i].card, extracted[i].det)
          /\ ~extracted[i].det.ok =>
                /\ \A f \in MergedFields : listings[i][f] = extracted[i].card[f]
                /\ listings[i].bedrooms_count = ""
                /\ listings[i].bathrooms_count = ""
    /\ SelectSeq(fetch_log, LAMBDA e : e.kind = "detail")
          = [i \in 1..Len(extracted) |-> DetailFetch(extracted[i].card.url)]
    /\ pc \in {"export", "exported"} =>
          \A i \in 1..Len(extracted) : extracted[i].card.url \in UrlsOf(unique_listings)
    /\ err = "FetchError" =>
          /\ pc = "failed"
          /\ fetch_log[Len(fetch_log)].kind = "summary"
          /\ unique_listings = <<>>

C10_Witness ==
    /\ pc = "failed"
    /\ err = "FetchError"
    /\ Len(listings) = 2
    /\ ~extracted[1].det.ok
    /\ extracted[2].det.ok
    /\ listings[2].bedrooms_count = "2"

\* C11: in loop mode a run that fails (summary fetch, challenge, notification or
\* configuration error) ends only that run: the process stays in the poll loop, which
\* goes on to its next run.
C11_FailedRunKeepsLoop ==
    [][(pc = "failed" /\ args.command = "loop") => args'.command = "loop"]_vars

\* C12: a run takes the page count N from the data-pages marker of the first page (1
\* when it is absent or no number) and goes through the pages 1..N in ascending order
\* with one summary fetch for each, the first page's fetch being the one already made.
SummaryPages ==
    LET fetches == SelectSeq(fetch_log, LAMBDA e : e.kind = "summary")
    IN [i \in 1..Len(fetches) |-> fetches[i].page]

UpTo(n) == [i \in 1..n |-> i]

MarkerPages(attr) == IF attr.kind = "int" THEN attr.n ELSE 1

ScrapeDone ==
    \/ pc \in {"dedup", "export", "exported", "load_seen", "notify", "save_open",
               "save_write", "returned"}
    \/ pc = "failed" /\ err \notin {"FetchError", "ChallengeError"}

\* a marker below 1 leaves no page to go through: only the first fetch is made
WalksPages(N) ==
    /\ pc = "cards" =>
          /\ page >= 1
          /\ N >= 1 => page <= N
          /\ SummaryPages = UpTo(page)
    /\ ScrapeDone =>
          /\ SummaryPages = UpTo(IF N >= 1 THEN N ELSE 1)
          /\ N >= 1 => page = N

\* C12 as claimed: of every run, the notification run of run_once among them
C12_EveryRunWalksAllPages == WalksPages(MarkerPages(data_pages))

\* C12 as amended: of the runs of write_csv with --all-pages; every other run, that of
\* run_once among them, takes N = 1 whatever the marker says
C12_AllPagesRunWalksAllPages ==
    LET N == IF args.command = "csv" /\ args.all_pages THEN MarkerPages(data_pages) ELSE 1
    IN /\ WalksPages(N)
       /\ N < 1 => (pc # "cards" /\ extracted = <<>>)
       /\ Notifies => N = 1

C12_Witness ==
    /\ pc = "exported"
    /\ args.command = "csv"
    /\ args.all_pages
    /\ data_pages = [kind |-> "int", n |-> 2]
    /\ SummaryPages = <<1, 2>>
    /\ Len(extracted) = 2

====
